---- MODULE Spec2Model ----
(***************************************************************************)
(* A model of dynamic_forms/models.py: FormModel (URL normalisation on     *)
(* save, field listing), FormFieldModel (the options blob, its lazily      *)
(* decoded cache, sanitisation on save, runtime field generation) and      *)
(* FormModelData (pretty_value, on_delete behaviour of its form link).     *)
(*                                                                         *)
(* Text is modelled as a sequence of one-character strings.  A JSON text   *)
(* is a record [kind, members]: kind "object" carries the members of the   *)
(* object in textual order (duplicates possible), the other kinds are      *)
(* texts that are not JSON objects.  A Python value is a record            *)
(* [type, dict]; a dict is a TLA+ function from keys to values.            *)
(***************************************************************************)
EXTENDS Integers, Sequences, FiniteSets, TLC

VARIABLES
    \* ---- one FormFieldModel instance and its database row ----
    field_type, label, name, _options, _options_cached,
    row,            \* what the last successful FormFieldModel.save wrote
    form,           \* the runtime form handed to generate_form_field: the names of its fields
    ret,            \* value returned by the last read of .options
    arg,            \* mapping passed to the last call of the options setter
    \* ---- one FormModel instance and its database row ----
    submit_url, success_url, form_row,
    \* ---- one FormModelData instance ----
    value, pretty,
    \* ---- the three tables (on_delete, ordering) ----
    forms, fields, data, listing,
    \* ---- the operation that ran last, and the exception it raised ----
    op, raised

vars == << field_type, label, name, _options, _options_cached, row, form, ret, arg,
           submit_url, success_url, form_row, value, pretty,
           forms, fields, data, listing, op, raised >>

fieldVars == << field_type, label, name, _options, _options_cached, row, form, ret, arg >>
formVars  == << submit_url, success_url, form_row >>
dataVars  == << value, pretty >>
dbVars    == << forms, fields, data, listing >>

(***************************************************************************)
(* Bounds of the model.                                                    *)
(***************************************************************************)
MaxMembers == 2     \* members of a stored JSON object text
MaxUrlLen  == 2     \* characters of a URL typed by the operator
MaxPairs   == 3     \* members of a stored submission value
MaxFields  == 2     \* FormFieldModel rows ever created
MaxData    == 1     \* FormModelData rows ever created

(***************************************************************************)
(* Text, dicts, JSON.                                                      *)
(***************************************************************************)
EmptyDict == [k \in {} |-> << >>]

DictSet(d, k, v) == [x \in (DOMAIN d) \cup {k} |-> IF x = k THEN v ELSE d[x]]
DictDel(d, k)    == [x \in (DOMAIN d) \ {k} |-> d[x]]
DictUpdate(d, e) == [x \in (DOMAIN d) \cup (DOMAIN e) |->
                        IF x \in DOMAIN e THEN e[x] ELSE d[x]]
Restrict(d, ks)  == [x \in (DOMAIN d) \cap ks |-> d[x]]

\* Python values held in _options_cached / returned by json.loads
PyDict(d) == [type |-> "dict", dict |-> d]
PyList    == [type |-> "list", dict |-> EmptyDict]   \* any JSON value that is no object
Absent    == [type |-> "absent", dict |-> EmptyDict] \* the attribute does not exist

\* Lexicographic order of the keys used in the model (sorted(), json key order)
KeyRank == [k \in {"<", "a", "b", "bogus", "label", "max_length", "name", "required"} |->
              CASE k = "<" -> 0 [] k = "a" -> 1 [] k = "b" -> 2 [] k = "bogus" -> 3
                [] k = "label" -> 4 [] k = "max_length" -> 5
                [] k = "name" -> 6 [] k = "required" -> 7]

MinKey(ks) == CHOOSE k \in ks : \A j \in ks : KeyRank[k] <= KeyRank[j]

RECURSIVE SortedItems(_)
\* sorted(d.items()): the (key, value) pairs in ascending key order
SortedItems(d) ==
    IF DOMAIN d = {} THEN << >>
    ELSE LET k == MinKey(DOMAIN d)
         IN  << <<k, d[k]>> >> \o SortedItems(DictDel(d, k))

RECURSIVE MembersToDict(_)
\* the object a JSON parser builds: a later member replaces an earlier one
MembersToDict(ms) ==
    IF ms = << >> THEN EmptyDict
    ELSE LET n == Len(ms)
         IN  DictSet(MembersToDict(SubSeq(ms, 1, n - 1)), ms[n][1], ms[n][2])

JsonText(kind, members) == [kind |-> kind, members |-> members]
NoneText      == JsonText("None", << >>)        \* NULL column / Python None
EmptyText     == JsonText("empty", << >>)       \* ''
MalformedText == JsonText("malformed", << >>)   \* '{not json'
ArrayText     == JsonText("array", << >>)       \* '[1, 2]': valid JSON, no object

\* json.loads on a str: the decoded value, or ValueError
json_loads(text) ==
    CASE text.kind = "object" -> [exc |-> "none", val |-> PyDict(MembersToDict(text.members))]
      [] text.kind = "array"  -> [exc |-> "none", val |-> PyList]
      [] OTHER                -> [exc |-> "ValueError", val |-> Absent]

json_dumps(d) == JsonText("object", SortedItems(d))

Truthy(text) == text.kind \notin {"None", "empty"}

(***************************************************************************)
(* FormFieldModel                                                          *)
(***************************************************************************)
\* formfield_registry: the registered field types and their option schemas
Registered == {"SingleLineTextField", "BooleanField"}
FieldTypes == Registered \cup {"Unregistered"}
Meta(t) == IF t = "SingleLineTextField" THEN {"max_length"} ELSE {"required"}

UserKeys == {"max_length", "bogus"}
Vals     == { <<"1">>, <<"5", "0">> }
Labels   == { <<"F", " ", "N">> }
Names    == { << >> }

\* every dict over a set of keys, as the operator may build it
DictsOver(ks) == UNION { [d -> Vals] : d \in SUBSET ks }
UserDicts == DictsOver(UserKeys)

Members == UserKeys \X Vals
MemberSeqs == UNION { [1..n -> Members] : n \in 0..MaxMembers }
StoredTexts == {NoneText, EmptyText, MalformedText, ArrayText}
                 \cup { JsonText("object", ms) : ms \in MemberSeqs }

\* django.template.defaultfilters.slugify on the characters of the model:
\* drop what is not alphanumeric, space or hyphen; strip; lower; join with '-'
Lower(c) == CASE c = "F" -> "f" [] c = "N" -> "n" [] OTHER -> c
IsSep(c) == c \in {" ", "-"}
IsWord(c) == c \in {"F", "N", "f", "n", "x"}

RECURSIVE Keep(_)
Keep(s) == IF s = << >> THEN << >>
           ELSE IF IsWord(Head(s)) \/ IsSep(Head(s))
                THEN <<Head(s)>> \o Keep(Tail(s)) ELSE Keep(Tail(s))

RECURSIVE Strip(_)
Strip(s) == IF s = << >> THEN s
            ELSE IF Head(s) = " " THEN Strip(Tail(s))
            ELSE IF s[Len(s)] = " " THEN Strip(SubSeq(s, 1, Len(s) - 1))
            ELSE s

RECURSIVE Join(_)
Join(s) == IF s = << >> THEN << >>
           ELSE IF IsSep(Head(s))
                THEN IF Len(s) > 1 /\ IsSep(s[2]) THEN Join(Tail(s))
                     ELSE <<"-">> \o Join(Tail(s))
                ELSE <<Lower(Head(s))>> \o Join(Tail(s))

slugify(s) == Join(Strip(Keep(s)))

\* (mutant) the property without its except clause: ValueError escapes
options_get_uncaught(cached, blob) ==
    IF cached # Absent THEN [exc |-> "none", val |-> cached]
    ELSE IF Truthy(blob)
         THEN LET r == json_loads(blob)
              IN  IF r.exc = "none" THEN [exc |-> "none", val |-> r.val]
                  ELSE [exc |-> r.exc, val |-> PyDict(EmptyDict)]
         ELSE [exc |-> "none", val |-> PyDict(EmptyDict)]

\* the options property: returns the cached object itself, decoding on first use
options_get(cached, blob) ==
    IF cached # Absent THEN [exc |-> "none", val |-> cached]
    ELSE IF Truthy(blob)
         THEN LET r == json_loads(blob)
              IN  IF r.exc = "none" THEN [exc |-> "none", val |-> r.val]
                  ELSE IF r.exc = "ValueError"
                       THEN [exc |-> "none", val |-> PyDict(EmptyDict)]
                       ELSE [exc |-> r.exc, val |-> PyDict(EmptyDict)]
         ELSE [exc |-> "none", val |-> PyDict(EmptyDict)]

\* (mutant) a setter that serialises but leaves the cache in place
options_set_keeps_cache(cached, opts) == [cached |-> cached, blob |-> json_dumps(opts)]

\* the options setter: drops the cache, serialises at once
options_set(cached, opts) == [cached |-> Absent, blob |-> json_dumps(opts)]

\* get_form_field_kwargs: kwargs IS the cached dict, update() changes it in place
get_form_field_kwargs(cached, blob, nm, lbl) ==
    LET r == options_get(cached, blob)
    IN  IF r.exc # "none" THEN [exc |-> r.exc, kwargs |-> EmptyDict, cached |-> r.val]
        ELSE IF r.val.type # "dict"
        THEN [exc |-> "AttributeError", kwargs |-> EmptyDict, cached |-> r.val]
        ELSE LET kw == DictUpdate(r.val.dict, [k \in {"name", "label"} |->
                                                  IF k = "name" THEN nm ELSE lbl])
             IN  [exc |-> "none", kwargs |-> kw, cached |-> PyDict(kw)]

NoRow == [saved |-> FALSE, field_type |-> "Unregistered", _options |-> NoneText]

InitField ==
    /\ field_type \in FieldTypes
    /\ label \in Labels
    /\ name \in Names
    /\ _options \in StoredTexts
    /\ _options_cached = Absent
    /\ row = NoRow
    /\ form = {}
    /\ ret = Absent
    /\ arg = EmptyDict

\* x = obj.options
FieldGetOptions ==
    LET r == options_get(_options_cached, _options)
    IN  /\ _options_cached' = r.val
        /\ ret' = r.val
        /\ raised' = r.exc
        /\ op' = "options"
        /\ UNCHANGED << formVars, dataVars, dbVars >>
        /\ arg' = EmptyDict
        /\ UNCHANGED << field_type, label, name, _options, row, form >>

\* obj.options = opts
FieldSetOptions(opts) ==
    LET s == options_set(_options_cached, opts)
    IN  /\ _options_cached' = s.cached
        /\ _options' = s.blob
        /\ arg' = opts
        /\ ret' = ret          \* the caller may still hold what it read before
        /\ raised' = "none"
        /\ op' = "options.setter"
        /\ UNCHANGED << formVars, dataVars, dbVars >>
        /\ UNCHANGED << field_type, label, name, row, form >>

\* obj.options[k] = v : the object the property returned is the cache
FieldMutateSet(k, v) ==
    LET r == options_get(_options_cached, _options)
    IN  /\ r.exc = "none" /\ r.val.type = "dict"
        /\ _options_cached' = PyDict(DictSet(r.val.dict, k, v))
        /\ ret' = Absent
        /\ arg' = EmptyDict
        /\ raised' = "none"
        /\ op' = "options[k]=v"
        /\ UNCHANGED << formVars, dataVars, dbVars >>
        /\ UNCHANGED << field_type, label, name, _options, row, form >>

\* del obj.options[k]
FieldMutateDel(k) ==
    LET r == options_get(_options_cached, _options)
    IN  /\ r.exc = "none" /\ r.val.type = "dict"
        /\ k \in DOMAIN r.val.dict
        /\ _options_cached' = PyDict(DictDel(r.val.dict, k))
        /\ ret' = Absent
        /\ arg' = EmptyDict
        /\ raised' = "none"
        /\ op' = "del options[k]"
        /\ UNCHANGED << formVars, dataVars, dbVars >>
        /\ UNCHANGED << field_type, label, name, _options, row, form >>

\* obj.field_type = t
FieldSetType(t) ==
    /\ t # field_type
    /\ field_type' = t
    /\ ret' = Absent
    /\ arg' = EmptyDict
    /\ raised' = "none"
    /\ op' = "field_type="
    /\ UNCHANGED << formVars, dataVars, dbVars >>
    /\ UNCHANGED << label, name, _options, _options_cached, row, form >>

\* obj.generate_form_field(form)
generate_form_field ==
    /\ op' = "generate_form_field"
    /\ UNCHANGED << formVars, dataVars, dbVars >>
    /\ ret' = Absent
    /\ arg' = EmptyDict
    /\ UNCHANGED << field_type, label, name, _options, row >>
    /\ IF field_type \notin Registered
       THEN /\ raised' = "NotFound"
            /\ UNCHANGED << _options_cached, form >>
       ELSE LET kw == get_form_field_kwargs(_options_cached, _options, name, label)
            IN  /\ _options_cached' = kw.cached
                /\ raised' = kw.exc
                /\ form' = IF kw.exc = "none"
                           THEN form \cup {kw.kwargs["name"]}
                           ELSE form

\* what save() leaves in the instance: name, cache and blob after sanitising
sanitize(cached, blob, ft) ==
    LET r == options_get(cached, blob)
    IN  IF r.exc # "none" THEN [exc |-> r.exc, cached |-> r.val, blob |-> blob]
        ELSE IF ft \notin Registered
        THEN [exc |-> "NotFound", cached |-> r.val, blob |-> blob]
        ELSE IF r.val.type # "dict"
        THEN [exc |-> "AttributeError", cached |-> r.val, blob |-> blob]
        ELSE LET invalid == (DOMAIN r.val.dict) \ Meta(ft)
             IN  IF invalid # {}
                 THEN LET s == options_set(r.val, Restrict(r.val.dict, (DOMAIN r.val.dict) \ invalid))
                      IN  [exc |-> "none", cached |-> s.cached, blob |-> s.blob]
                 ELSE [exc |-> "none", cached |-> r.val, blob |-> blob]

\* obj.save()
FieldSave ==
    LET nm == IF name = << >> THEN slugify(label) ELSE name
        s  == sanitize(_options_cached, _options, field_type)
    IN  /\ name' = nm
        /\ _options_cached' = s.cached
        /\ _options' = s.blob
        /\ raised' = s.exc
        /\ row' = IF s.exc = "none"
                  THEN [saved |-> TRUE, field_type |-> field_type, _options |-> s.blob]
                  ELSE row
        /\ op' = "save"
        /\ UNCHANGED << formVars, dataVars, dbVars >>
        /\ ret' = Absent
        /\ arg' = EmptyDict
        /\ UNCHANGED << field_type, label, form >>

NextField ==
    \/ FieldGetOptions
    \/ \E opts \in UserDicts : FieldSetOptions(opts)
    \/ \E k \in UserKeys, v \in Vals : FieldMutateSet(k, v)
    \/ \E k \in UserKeys : FieldMutateDel(k)
    \/ \E t \in FieldTypes : FieldSetType(t)
    \/ generate_form_field
    \/ FieldSave

(***************************************************************************)
(* FormModel                                                               *)
(***************************************************************************)
UrlChars == {"/", "c"}
Urls == UNION { [1..n -> UrlChars] : n \in 0..MaxUrlLen }
Done == <<"d", "o", "n", "e", "/">>

endswith(s, c) == s # << >> /\ s[Len(s)] = c

\* (mutant) a slash appended whatever the URL ends with
normalize_submit_url_always(su) == su \o <<"/">>

\* lines 59-60
normalize_submit_url(su) == IF ~endswith(su, "/") THEN su \o <<"/">> ELSE su

\* (mutant) a given success_url is stored as typed
normalize_success_url_as_typed(su, sc) == IF sc # << >> THEN sc ELSE su \o Done

\* lines 61-65, su being the submit_url already normalised
normalize_success_url(su, sc) ==
    IF sc # << >>
    THEN IF ~endswith(sc, "/") THEN sc \o <<"/">> ELSE sc
    ELSE su \o Done

NoFormRow == [saved |-> FALSE, submit_url |-> << >>, success_url |-> << >>]

InitForm ==
    /\ submit_url \in Urls
    /\ success_url \in Urls
    /\ form_row = NoFormRow

\* form.submit_url = u
FormSetSubmitUrl(u) ==
    /\ u # submit_url
    /\ submit_url' = u
    /\ op' = "submit_url="
    /\ UNCHANGED << fieldVars, dataVars, dbVars >>
    /\ raised' = "none"
    /\ UNCHANGED << success_url, form_row >>

\* form.success_url = u
FormSetSuccessUrl(u) ==
    /\ u # success_url
    /\ success_url' = u
    /\ op' = "success_url="
    /\ UNCHANGED << fieldVars, dataVars, dbVars >>
    /\ raised' = "none"
    /\ UNCHANGED << submit_url, form_row >>

\* form.save(): normalise, then the store writes the row or rejects it
\* (name and submit_url are unique=True)
FormSave(stored) ==
    LET su == normalize_submit_url(submit_url)
        sc == normalize_success_url(su, success_url)
    IN  /\ submit_url' = su
        /\ success_url' = sc
        /\ form_row' = IF stored
                       THEN [saved |-> TRUE, submit_url |-> su, success_url |-> sc]
                       ELSE form_row
        /\ raised' = IF stored THEN "none" ELSE "IntegrityError"
        /\ op' = "FormModel.save"
        /\ UNCHANGED << fieldVars, dataVars, dbVars >>

NextForm ==
    \/ \E u \in Urls : FormSetSubmitUrl(u)
    \/ \E u \in Urls : FormSetSuccessUrl(u)
    \/ \E stored \in BOOLEAN : FormSave(stored)

(***************************************************************************)
(* FormModelData.pretty_value                                              *)
(***************************************************************************)
DataKeys == {"a", "b", "<"}
DataVals == { <<"1">>, <<"<">> }
DataSeqs == UNION { [1..n -> DataKeys \X DataVals] : n \in 0..MaxPairs }
ValueTexts == {EmptyText, MalformedText, ArrayText}
                \cup { JsonText("object", ms) : ms \in DataSeqs }

\* django.utils.html.escape, on the characters of the model
RECURSIVE escape(_)
escape(s) == IF s = << >> THEN << >>
             ELSE (IF Head(s) = "<" THEN <<"&", "l", "t", ";">> ELSE <<Head(s)>>)
                  \o escape(Tail(s))

NoPretty == [exc |-> "none", kind |-> "none", items |-> << >>, raw |-> NoneText]

\* pretty_value(): kind "html" is <dl> items </dl>, kind "raw" is self.value
pretty_value(val) ==
    LET r == json_loads(val)
    IN  IF r.exc = "ValueError"
        THEN [exc |-> "none", kind |-> "raw", items |-> << >>, raw |-> val]
        ELSE IF r.exc # "none"
        THEN [exc |-> r.exc, kind |-> "none", items |-> << >>, raw |-> NoneText]
        ELSE IF r.val.type # "dict"
        THEN [exc |-> "AttributeError", kind |-> "none", items |-> << >>, raw |-> NoneText]
        ELSE LET its == SortedItems(r.val.dict)
             IN  [exc |-> "none", kind |-> "html",
                  items |-> [i \in 1..Len(its) |->
                               << escape(<<its[i][1]>>), escape(its[i][2]) >>],
                  raw |-> NoneText]

InitData ==
    /\ value \in ValueTexts
    /\ pretty = NoPretty

PrettyValue ==
    LET r == pretty_value(value)
    IN  /\ pretty' = r
        /\ raised' = r.exc
        /\ op' = "pretty_value"
        /\ UNCHANGED << value, fieldVars, formVars, dbVars >>

NextData == PrettyValue

(***************************************************************************)
(* The tables: FormModel, FormFieldModel (fields), FormModelData (data)    *)
(***************************************************************************)
Null == 0
FormIds == {1, 2}
Positions == {0, 1}
SlugNames == {"n1", "n2"}
FieldLabels == {"A", "B"}
Payloads == {"v1", "v2"}

Alive(tbl) == { i \in DOMAIN tbl : ~tbl[i].deleted }
FieldsOf(flds, f) == { i \in Alive(flds) : flds[i].parent_form = f }

\* parent_form: on_delete=models.CASCADE
on_delete_parent_form(flds, f) ==
    [i \in DOMAIN flds |->
        IF flds[i].parent_form = f THEN [flds[i] EXCEPT !.deleted = TRUE] ELSE flds[i]]

\* (mutant) on_delete=models.CASCADE on FormModelData.form
on_delete_form_cascade(dat, f) ==
    [i \in DOMAIN dat |->
        IF dat[i].form = f THEN [dat[i] EXCEPT !.deleted = TRUE] ELSE dat[i]]

\* form: on_delete=models.SET_NULL
on_delete_form(dat, f) ==
    [i \in DOMAIN dat |->
        IF ~dat[i].deleted /\ dat[i].form = f THEN [dat[i] EXCEPT !.form = Null] ELSE dat[i]]

\* Meta.ordering = ['parent_form', 'position']: the orders in which the store
\* may return the rows of one form; rows of equal position come in any order
Orderings(flds, f) ==
    LET ids == FieldsOf(flds, f)
        n   == Cardinality(ids)
    IN  { s \in [1..n -> ids] :
            /\ \A i, j \in 1..n : i # j => s[i] # s[j]
            /\ \A i, j \in 1..n : i < j => flds[s[i]].position <= flds[s[j]].position }

RECURSIVE OrderedDict(_)
\* OrderedDict(pairs): a repeated key keeps its first place and takes the last value
OrderedDict(pairs) ==
    IF pairs = << >> THEN << >>
    ELSE LET n    == Len(pairs)
             init == OrderedDict(SubSeq(pairs, 1, n - 1))
             hit  == { i \in 1..Len(init) : init[i][1] = pairs[n][1] }
         IN  IF hit = {} THEN Append(init, pairs[n])
             ELSE [i \in 1..Len(init) |-> IF i \in hit THEN pairs[n] ELSE init[i]]

\* get_fields_as_dict for the rows in the order the store returned them
get_fields_as_dict(flds, rows) ==
    OrderedDict([i \in 1..Len(rows) |-> << flds[rows[i]].name, flds[rows[i]].label >>])

NoListing == [form |-> Null, rows |-> << >>, dict |-> << >>]

InitDb ==
    /\ forms = FormIds
    /\ fields = << >>
    /\ data = << >>
    /\ listing = NoListing

\* FormFieldModel.objects.create(parent_form=f, position=pos, name=nm, label=lbl)
FieldCreate(f, pos, nm, lbl) ==
    /\ f \in forms
    /\ Len(fields) < MaxFields
    /\ op' = "FormFieldModel.create"
    /\ UNCHANGED << fieldVars, formVars, dataVars >>
    /\ IF \E i \in FieldsOf(fields, f) : fields[i].name = nm
       THEN /\ raised' = "IntegrityError"      \* unique_together
            /\ UNCHANGED fields
       ELSE /\ raised' = "none"
            /\ fields' = Append(fields, [parent_form |-> f, position |-> pos,
                                         name |-> nm, label |-> lbl, deleted |-> FALSE])
    /\ listing' = NoListing
    /\ UNCHANGED << forms, data >>

\* FormModelData.objects.create(form=f, value=v); submitted is set once
DataCreate(f, v) ==
    /\ f \in forms
    /\ Len(data) < MaxData
    /\ data' = Append(data, [form |-> f, value |-> v, submitted |-> Len(data) + 1,
                             deleted |-> FALSE])
    /\ op' = "FormModelData.create"
    /\ UNCHANGED << fieldVars, formVars, dataVars >>
    /\ raised' = "none"
    /\ listing' = NoListing
    /\ UNCHANGED << forms, fields >>

\* form.delete()
FormDelete(f) ==
    /\ f \in forms
    /\ forms' = forms \ {f}
    /\ fields' = on_delete_parent_form(fields, f)
    /\ data' = on_delete_form(data, f)
    /\ op' = "FormModel.delete"
    /\ UNCHANGED << fieldVars, formVars, dataVars >>
    /\ raised' = "none"
    /\ listing' = NoListing

\* form.get_fields_as_dict()
GetFieldsAsDict(f) ==
    /\ f \in forms
    /\ \E rows \in Orderings(fields, f) :
          listing' = [form |-> f, rows |-> rows, dict |-> get_fields_as_dict(fields, rows)]
    /\ op' = "get_fields_as_dict"
    /\ UNCHANGED << fieldVars, formVars, dataVars >>
    /\ raised' = "none"
    /\ UNCHANGED << forms, fields, data >>

NextDb ==
    \/ \E f \in FormIds, pos \in Positions, nm \in SlugNames, lbl \in FieldLabels :
           FieldCreate(f, pos, nm, lbl)
    \/ \E f \in FormIds, v \in Payloads : DataCreate(f, v)
    \/ \E f \in FormIds : FormDelete(f)
    \/ \E f \in FormIds : GetFieldsAsDict(f)

(***************************************************************************)
(* Specifications: one per model class, the other classes at rest.         *)
(***************************************************************************)
RestField ==
    /\ field_type = "Unregistered" /\ label = << >> /\ name = << >>
    /\ _options = NoneText /\ _options_cached = Absent /\ row = NoRow
    /\ form = {} /\ ret = Absent /\ arg = EmptyDict
RestForm == submit_url = << >> /\ success_url = << >> /\ form_row = NoFormRow
RestData == value = EmptyText /\ pretty = NoPretty
RestDb   == forms = {} /\ fields = << >> /\ data = << >> /\ listing = NoListing
Start    == op = "init" /\ raised = "none"

InitSpecField == InitField /\ RestForm /\ RestData /\ RestDb /\ Start
InitSpecForm  == InitForm /\ RestField /\ RestData /\ RestDb /\ Start
InitSpecData  == InitData /\ RestField /\ RestForm /\ RestDb /\ Start
InitSpecDb    == InitDb /\ RestField /\ RestForm /\ RestData /\ Start

SpecField == InitSpecField /\ [][NextField]_vars
SpecForm  == InitSpecForm /\ [][NextForm]_vars
SpecData  == InitSpecData /\ [][NextData]_vars
SpecDb    == InitSpecDb /\ [][NextDb]_vars

(***************************************************************************)
(* Properties                                                              *)
(***************************************************************************)
\* what a fresh instance loaded from the row reads as its options
StoredOptions(blob) == options_get(Absent, blob).val

\* C1: the options blob written by the last successful FormFieldModel.save
\* decodes to a mapping whose keys are all in the schema of the field type
\* saved with it, whatever operations came before the save.
C1_PersistedKeysInSchema ==
    row.saved =>
        /\ StoredOptions(row._options).type = "dict"
        /\ DOMAIN StoredOptions(row._options).dict \subseteq Meta(row.field_type)

\* C2: a successful save stores exactly the mapping the instance held when
\* save was called, restricted to the keys of the field type's schema.
C2_SaveStoresRestriction ==
    [][ (op' = "save" /\ raised' = "none") =>
          LET M == options_get(_options_cached, _options).val.dict
          IN  StoredOptions(row'._options) = PyDict(Restrict(M, Meta(field_type))) ]_vars

BadTexts == {NoneText, EmptyText, MalformedText}

\* C3: reading options never raises; a read that has to decode a blob that is
\* null, empty or not decodable returns (and caches) the empty mapping.
C3_ReadNeverRaises ==
    [][ op' = "options" =>
          /\ raised' = "none"
          /\ (_options_cached = Absent /\ _options \in BadTexts)
                => (ret' = PyDict(EmptyDict) /\ _options_cached' = PyDict(EmptyDict)) ]_vars

C3_Witness ==
    /\ op = "options" /\ raised = "none"
    /\ _options = MalformedText
    /\ ret = PyDict(EmptyDict)

\* C4: generate_form_field leaves the FieldDefinition as it was: name, label,
\* field_type, the stored blob, and the mapping the options accessor returns.
C4_GenerateHasNoSideEffect ==
    [][ op' = "generate_form_field" =>
          /\ name' = name /\ label' = label /\ field_type' = field_type
          /\ _options' = _options
          /\ options_get(_options_cached', _options').val
               = options_get(_options_cached, _options).val ]_vars

\* C10: right after the setter was called with M the blob is the serialisation
\* of M and a read of options returns a mapping equal to M, also when an
\* older mapping had been read before.
C10_SetterNeverStale ==
    op = "options.setter" =>
        /\ _options.kind = "object"
        /\ MembersToDict(_options.members) = arg
        /\ options_get(_options_cached, _options) = [exc |-> "none", val |-> PyDict(arg)]

C10_Witness ==
    /\ op = "options.setter"
    /\ ret.type = "dict" /\ ret.dict # arg /\ ret.dict # EmptyDict
    /\ arg # EmptyDict

\* C5: the row written by a successful FormModel.save has a submit_url and a
\* success_url ending with '/', and a success_url that was empty at the call
\* is stored as the stored submit_url followed by "done/".
C5_SavedUrlsNormalized ==
    [][ /\ form_row'.saved =>
              /\ endswith(form_row'.submit_url, "/")
              /\ endswith(form_row'.success_url, "/")
        /\ (op' = "FormModel.save" /\ raised' = "none" /\ success_url = << >>) =>
              form_row'.success_url = form_row'.submit_url \o Done ]_vars

C5_Witness ==
    /\ op = "FormModel.save" /\ form_row.saved
    /\ form_row.submit_url = <<"/", "c", "/">>
    /\ form_row.success_url = <<"/", "c", "/", "d", "o", "n", "e", "/">>

\* C6: save appends exactly one '/' to a submit_url that does not end with
\* one and leaves one that does unchanged, so a second save in a row changes
\* nothing.
C6_SubmitUrlOneSlashIdempotent ==
    [][ op' = "FormModel.save" =>
          LET n == Len(submit_url)
          IN  /\ IF endswith(submit_url, "/")
                 THEN submit_url' = submit_url
                 ELSE /\ Len(submit_url') = n + 1
                      /\ SubSeq(submit_url', 1, n) = submit_url
                      /\ submit_url'[n + 1] = "/"
              /\ op = "FormModel.save" => submit_url' = submit_url
              /\ (op = "FormModel.save" /\ raised = "none" /\ raised' = "none")
                    => form_row'.submit_url = form_row.submit_url ]_vars

C6_Witness ==
    /\ op = "FormModel.save" /\ form_row.saved
    /\ Len(submit_url) = MaxUrlLen + 1
    /\ form_row.submit_url = submit_url

\* the key a rendered <dt> stands for
RenderedKey(item) == CHOOSE k \in DataKeys : escape(<<k>>) = item[1]

\* C7: pretty_value never raises; a value that decodes as a mapping is
\* rendered with each key once, in ascending key order; any other stored
\* value is returned as the raw stored string.
C7_PrettyValueNeverRaises ==
    op = "pretty_value" =>
        /\ raised = "none"
        /\ IF value.kind = "object"
           THEN /\ pretty.kind = "html"
                /\ \A i, j \in 1..Len(pretty.items) :
                      i < j => KeyRank[RenderedKey(pretty.items[i])]
                                 < KeyRank[RenderedKey(pretty.items[j])]
                /\ { pretty.items[i][1] : i \in 1..Len(pretty.items) }
                     = { escape(<<value.members[i][1]>>) : i \in 1..Len(value.members) }
           ELSE pretty.kind = "raw" /\ pretty.raw = value

RefIntegrity ==
    /\ \A i \in Alive(fields) : fields[i].parent_form \in forms
    /\ \A i \in Alive(data) : data[i].form \in forms \cup {Null}

\* C8: deleting a form deletes each of its fields and no submission; each
\* submission of the form stays with form = null, value and submitted as
\* they were; no field refers to a deleted form, every submission's form is
\* null or an existing form.
C8_DeleteCascadesAndNulls ==
    [][ /\ RefIntegrity'
        /\ op' = "FormModel.delete" =>
              \A f \in forms \ forms' :
                 /\ \A i \in DOMAIN fields :
                       fields[i].parent_form = f => fields'[i].deleted
                 /\ DOMAIN data' = DOMAIN data
                 /\ \A i \in DOMAIN data :
                       /\ data'[i].deleted = data[i].deleted
                       /\ data'[i].value = data[i].value
                       /\ data'[i].submitted = data[i].submitted
                       /\ data'[i].form = IF data[i].form = f THEN Null ELSE data[i].form
      ]_vars

C8_Witness ==
    /\ op = "FormModel.delete"
    /\ \E i \in Alive(data) : data[i].form = Null
    /\ \E i \in DOMAIN fields : fields[i].deleted
    /\ forms # {}

\* C9: get_fields_as_dict lists exactly the form's fields, name -> label, in
\* ascending position order, fields of equal position in creation order.
C9_ListingByPositionThenCreation ==
    op = "get_fields_as_dict" =>
        /\ { listing.rows[i] : i \in 1..Len(listing.rows) } = FieldsOf(fields, listing.form)
        /\ Len(listing.rows) = Cardinality(FieldsOf(fields, listing.form))
        /\ Len(listing.dict) = Len(listing.rows)
        /\ \A i \in 1..Len(listing.rows) :
              listing.dict[i] = << fields[listing.rows[i]].name, fields[listing.rows[i]].label >>
        /\ \A i, j \in 1..Len(listing.rows) :
              i < j => \/ fields[listing.rows[i]].position < fields[listing.rows[j]].position
                       \/ /\ fields[listing.rows[i]].position = fields[listing.rows[j]].position
                          /\ listing.rows[i] < listing.rows[j]
====
